---- MODULE Spec2Model ----
(***************************************************************************)
(* Model of the TED download orchestrator (batch_download_index.py) and of *)
(* the package indexer it calls (index_ted_packages.py).                   *)
(*                                                                         *)
(* The orchestrator processes a range of years in a pool of year threads;  *)
(* every year thread resolves the year's publications, runs the downloads  *)
(* of the year in a second pool and, once all of them have returned,       *)
(* appends the token of every successful publication to the tracking file. *)
(***************************************************************************)
EXTENDS Integers, Sequences, FiniteSets, TLC

\* ---------------------------------------------------------------- bounds
NumYears == 2      \* years in the range start_year..end_year
MaxPubs == 2       \* rows of the calendar feed of the first year
MaxRuns == 2       \* runs of the orchestrator over the same tracking file (SpecRuns)
MaxWorkers == 2    \* largest pool size given on the command line

\* --start-year default (batch_download_index.py:278)
StartYear == 2015

EndYear == StartYear + NumYears - 1
Years == StartYear..EndYear

\* ------------------------------------------------------------ text helpers
\* Strings are sequences of one-character strings, so that a write at a file
\* offset can overwrite part of a line.
DigitChar(d) == <<"0", "1", "2", "3", "4", "5", "6", "7", "8", "9">>[d + 1]

RECURSIVE Digits(_)
\* str(n) / f"{n}" of a non-negative integer
Digits(n) == IF n < 10 THEN <<DigitChar(n)>>
             ELSE Digits(n \div 10) \o <<DigitChar(n % 10)>>

\* The calendar feed of a year as get_available_ojs_for_year returns it when
\* the fetch succeeds: the OJS numbers (column 0, as text) in date order.
\* The first year has MaxPubs rows with short numbers, the second year one
\* row with a three-digit number, and the years after it have no row dated
\* up to today.
FeedLen(y) == IF y = StartYear THEN MaxPubs ELSE IF y = StartYear + 1 THEN 1 ELSE 0
Feed(y) == [k \in 1..FeedLen(y) |->
              Digits(IF y = StartYear THEN k ELSE 100 * (y - StartYear) + k)]

\* package_id = f"{year}-{ojs}"
PackageId(y, ojs) == Digits(y) \o <<"-">> \o ojs

\* what f.write(f"{package_id}\n") writes
LedgerRecord(id) == id \o <<"\n">>

\* A write of rec at byte offset off of a file (off <= Len(file)).
WriteAt(file, off, rec) ==
    SubSeq(file, 1, off) \o rec \o SubSeq(file, off + Len(rec) + 1, Len(file))

RECURSIVE SplitLines(_, _)
\* set(line.strip() for line in f): the lines of the file, without their
\* newline; cur is the line read so far.
SplitLines(file, cur) ==
    IF file = <<>> THEN (IF cur = <<>> THEN {} ELSE {cur})
    ELSE IF Head(file) = "\n" THEN {cur} \cup SplitLines(Tail(file), <<>>)
    ELSE SplitLines(Tail(file), Append(cur, Head(file)))

LoadProcessed(file) == SplitLines(file, <<>>)

\* the lines of the tracking file, in order, each without its newline
RECURSIVE LineSeq(_, _)
LineSeq(file, cur) ==
    IF file = <<>> THEN (IF cur = <<>> THEN <<>> ELSE <<cur>>)
    ELSE IF Head(file) = "\n" THEN <<cur>> \o LineSeq(Tail(file), <<>>)
    ELSE LineSeq(Tail(file), Append(cur, Head(file)))

\* ------------------------------------------------------------------ state
VARIABLES
    run,            \* number of the current orchestrator run
    skipExisting,   \* --skip-existing of the current run
    maxYears,       \* --max-concurrent-years
    maxDownloads,   \* --max-concurrent-downloads
    ledger,         \* contents of processed_publications.txt
    processed,      \* the in-memory set shared by the year threads
    ledgerAtStart,  \* the lines of the tracking file when the run started
    pc,             \* position of every year thread
    state,          \* state[y][k]: state of publication k of year y
    idx,            \* index of the result the year thread is looking at
    offset,         \* file offset at which the year thread's append lands
    yearStats,      \* year_stats of every year thread
    stats,          \* stats of process_year_range
    everAccepted,   \* publications all of whose documents the bulk endpoint accepted
    completions,    \* number of Completed transitions of every publication
    appends,        \* number of records appended to the tracking file since it exists
    exitCode,       \* <<>> while main runs, then <<status>> of the process
    \* get_available_ojs_for_year called on its own
    csvRows,        \* rows of the calendar feed as csv.reader yields them
    today,          \* datetime.now()
    available,      \* <<>> before the call, then <<the list returned>>
    \* construct_download_url / download_and_index_ojs building the archive path
    urlYear,        \* year argument
    urlOjs,         \* int(ojs)
    downloadUrl,    \* <<>> before the call, then <<ojs_formatted, url>>
    \* index_xml_files
    xmlFiles,       \* xml_files: TRUE for a file whose markup parses
    bulkSize,       \* bulk_size
    futures,        \* indices of the files whose future is not yet consumed
    processedDocs,  \* processed_docs
    successCount,   \* success_count
    errorCount,     \* error_count
    bulkCalls,      \* the calls of bulk_index made so far, with their results
    ixpc,           \* position of index_xml_files
    numWorkers,     \* num_workers
    fileState,      \* what the pool has done with process_xml_file of every file
    consumed,       \* the documents in the order they entered processed_docs
    \* element_to_dict called on its own
    element,        \* the element given to element_to_dict
    doc,            \* <<>> before the call, then <<the dictionary returned>>
    \* several indexer processes, each in create_index_if_not_exists and then
    \* in bulk_index, against one index of the server
    index,          \* the index on the server: exists, open, limit, closedBy
    epc,            \* position of every process
    curLimit,       \* current_limit as the process read it
    reqs            \* the requests every process has made, with their outcome

\* the variables of the indexer and of the functions checked on their own
resolveVars == <<csvRows, today, available>>
formatVars == <<urlYear, urlOjs, downloadUrl>>
ingestVars == <<xmlFiles, bulkSize, futures, processedDocs, successCount,
                errorCount, bulkCalls, ixpc, numWorkers, fileState, consumed>>
normVars == <<element, doc>>
ensureVars == <<index, epc, curLimit, reqs>>
unitVars == <<resolveVars, formatVars, ingestVars, normVars, ensureVars>>

vars == <<run, skipExisting, maxYears, maxDownloads, ledger, processed,
          ledgerAtStart, pc, state, idx, offset, yearStats, stats,
          everAccepted, completions, appends, exitCode, unitVars>>

\* the value of the variables of a part of the program that is not running
ResolveIdle == csvRows = <<>> /\ today = <<>> /\ available = <<>>
FormatIdle == urlYear = 0 /\ urlOjs = 0 /\ downloadUrl = <<>>
IngestIdle == /\ xmlFiles = <<>> /\ bulkSize = 0 /\ futures = {}
              /\ processedDocs = <<>> /\ successCount = 0 /\ errorCount = 0
              /\ bulkCalls = <<>> /\ ixpc = "idle"
              /\ numWorkers = 0 /\ fileState = <<>> /\ consumed = <<>>
NormIdle == element = <<>> /\ doc = <<>>

EnsureIdle == index = <<>> /\ epc = <<>> /\ curLimit = <<>> /\ reqs = <<>>

\* nothing but the orchestrator is running
UnitsIdle == ResolveIdle /\ FormatIdle /\ IngestIdle /\ NormIdle /\ EnsureIdle

Pubs == {<<y, k>> : y \in Years, k \in 1..MaxPubs} \cap
        {p \in Years \X (1..MaxPubs) : p[2] <= FeedLen(p[1])}

\* the package_id of every publication of the feeds
TokenTable == [p \in Pubs |-> PackageId(p[1], Feed(p[1])[p[2]])]

Token(p) == TokenTable[p]

ZeroStats == [total |-> 0, downloaded |-> 0, indexed |-> 0, failed |-> 0, skipped |-> 0]

InFlight == {"Downloading", "Indexing"}
Terminal == {"Completed", "IndexFailed", "DownloadFailed", "Raised", "Cancelled"}

\* the download tasks of a year, in submission order
Tasks(y) == {k \in 1..FeedLen(y) : state[y][k] \notin {"None", "Skipped"}}

NextTask(y, k) == IF \E j \in Tasks(y) : j > k
                  THEN CHOOSE j \in Tasks(y) : j > k /\ \A i \in Tasks(y) : i > k => j <= i
                  ELSE 0

StartOfRun(skip, file) ==
    /\ skipExisting' = skip
    /\ processed' = LoadProcessed(file)
    /\ ledgerAtStart' = LoadProcessed(file)
    /\ pc' = [y \in Years |-> "submitted"]
    /\ state' = [y \in Years |-> [k \in 1..FeedLen(y) |-> "None"]]
    /\ idx' = [y \in Years |-> 0]
    /\ offset' = [y \in Years |-> 0]
    /\ yearStats' = [y \in Years |-> ZeroStats]
    /\ stats' = ZeroStats

RECURSIVE LedgerOf(_)
\* the tracking file that earlier runs leave when exactly the publications of
\* S were fully indexed, completed once and appended, in calendar order
LedgerOf(S) ==
    IF S = {} THEN <<>>
    ELSE LET p == CHOOSE p \in S : \A q \in S :
                      p[1] < q[1] \/ (p[1] = q[1] /\ p[2] <= q[2])
         IN LedgerRecord(Token(p)) \o LedgerOf(S \ {p})

\* the tracking files a run may find: the ones left by earlier runs over the
\* first year of the range
PriorLedgers == {LedgerOf(S) : S \in SUBSET {p \in Pubs : p[1] = StartYear}}

InitWith(files) ==
    /\ run = 1
    /\ skipExisting \in BOOLEAN
    /\ maxYears \in 1..MaxWorkers
    /\ maxDownloads \in 1..MaxWorkers
    /\ ledger \in files
    /\ processed = LoadProcessed(ledger)
    /\ ledgerAtStart = LoadProcessed(ledger)
    /\ pc = [y \in Years |-> "submitted"]
    /\ state = [y \in Years |-> [k \in 1..FeedLen(y) |-> "None"]]
    /\ idx = [y \in Years |-> 0]
    /\ offset = [y \in Years |-> 0]
    /\ yearStats = [y \in Years |-> ZeroStats]
    /\ stats = ZeroStats
    /\ everAccepted = {p \in Pubs : Token(p) \in LoadProcessed(ledger)}
    /\ completions = [p \in Pubs |-> IF Token(p) \in LoadProcessed(ledger) THEN 1 ELSE 0]
    /\ appends = Len(LineSeq(ledger, <<>>))
    /\ exitCode = <<>>
    /\ UnitsIdle

\* one run of the orchestrator, over any tracking file of earlier runs
Init == InitWith(PriorLedgers)

\* the first of several runs, no tracking file existing
InitRuns == InitWith({<<>>})


\* ------------------------------------------------ decisions taken by the code
\* ShouldSkip with the identifier built without its dash, so that it matches
\* no line of the tracking file
ShouldSkip_WrongId(y, k) == skipExisting /\ (Digits(y) \o Feed(y)[k]) \in processed

\* ShouldSkip without the test of skip_existing
ShouldSkip_NoFlag(y, k) == PackageId(y, Feed(y)[k]) \in processed

\* "if skip_existing and package_id in processed" (process_single_year)
ShouldSkip(y, k) == skipExisting /\ PackageId(y, Feed(y)[k]) \in processed

RunningYears == {y \in Years : pc[y] \in {"running", "mapping", "unwinding", "results", "append"}}

\* YearSlotFree of a year pool that starts one thread per submitted year
YearSlotFree_Unbounded == TRUE

\* ThreadPoolExecutor(max_workers=max_concurrent_years): a year starts when a
\* worker of the year pool is idle
YearSlotFree == Cardinality(RunningYears) < maxYears

\* ThreadPoolExecutor(max_workers=max_concurrent_downloads): a download task
\* starts when a worker of the year's download pool is idle
DownloadSlotFree(y) ==
    Cardinality({k \in 1..FeedLen(y) : state[y][k] \in InFlight}) < maxDownloads

\* the outcomes of the indexing subprocess that the orchestrator tells apart
\* only by its exit status
IndexOutcomes == {"extract_failed", "no_xml_files", "bulk_errors", "all_accepted"}

\* process_package: False when the extraction fails or no XML file is found,
\* True after index_xml_files, whose bulk_index results are not looked at
ProcessPackage(outcome) == outcome \notin {"extract_failed", "no_xml_files"}

\* index_package: subprocess.run(cmd, check=True) returns True iff the
\* indexer exits 0, which main() of the indexer does iff process_package
\* returned True
IndexPackage(outcome) == ProcessPackage(outcome)

\* ResultSuccess testing the result itself, which is a non-empty dict for
\* every task that returned
ResultSuccess_AnyResult(y, k) == state[y][k] \in Terminal

\* "if result['success']" (process_single_year)
ResultSuccess(y, k) == state[y][k] = "Completed"

\* the statistics after one more successful / failed result
\* a failed result counted as downloaded as well
CountFailure_Downloaded(s) == [s EXCEPT !.failed = @ + 1, !.downloaded = @ + 1]

CountSuccess(s) == [s EXCEPT !.downloaded = @ + 1, !.indexed = @ + 1]
CountFailure(s) == [s EXCEPT !.failed = @ + 1]

\* "for key in stats: stats[key] += year_stats[key]"
AddStats(s, t) == [total |-> s.total + t.total,
                   downloaded |-> s.downloaded + t.downloaded,
                   indexed |-> s.indexed + t.indexed,
                   failed |-> s.failed + t.failed,
                   skipped |-> s.skipped + t.skipped]

\* process_single_year returns ys (or raises) and process_year_range, in
\* "for future in as_completed(year_futures)", adds the statistics of the
\* year that returned (or logs the exception of the year that raised). The
\* statistics are private to the main thread, so both are one step.
YearEnds(y, ys, returned) ==
    /\ pc' = [pc EXCEPT ![y] = IF returned THEN "returned" ELSE "raised"]
    /\ stats' = IF returned THEN AddStats(stats, ys) ELSE stats

\* download_csv letting the transport failure reach its caller
DownloadCsv_Raises(fetched) == IF fetched THEN "content" ELSE "raise"

\* download_csv: the text of the feed, or None when the request failed (the
\* RequestException is caught and logged); "raise" stands for an exception
\* leaving the function
DownloadCsv(fetched) == IF fetched THEN "content" ELSE "None"

\* ---------------------------------------------------------------- actions
\* A worker of the year pool takes the next submitted year (years are
\* submitted in ascending order and taken in that order).
BeginYear(y) ==
    /\ pc[y] = "submitted"
    /\ YearSlotFree
    /\ \A z \in Years : z < y => pc[z] # "submitted"
    /\ pc' = [pc EXCEPT ![y] = "running"]
    /\ UNCHANGED <<exitCode, unitVars>>
    /\ UNCHANGED <<run, skipExisting, maxYears, maxDownloads, ledger, processed,
                   ledgerAtStart, state, idx, offset, yearStats, stats,
                   everAccepted, completions, appends>>

\* process_single_year up to executor.map: fetch the calendar (a transport
\* failure gives no publications), count every publication, skip the ones
\* already processed and submit the others to the download pool.
ScheduleYear(y) ==
    /\ pc[y] = "running"
    /\ \E fetched \in BOOLEAN :
         LET csv_content == DownloadCsv(fetched)
             publications == IF csv_content = "content" THEN Feed(y) ELSE <<>>
             n == Len(publications)
             skipped == {k \in 1..n : ShouldSkip(y, k)}
         IN IF csv_content = "raise"
            THEN /\ YearEnds(y, yearStats[y], FALSE)
                 /\ UNCHANGED <<state, yearStats>>
            ELSE IF n = 0
            THEN /\ YearEnds(y, yearStats[y], TRUE)
                 /\ UNCHANGED <<state, yearStats>>
            ELSE /\ state' = [state EXCEPT ![y] =
                        [k \in 1..n |-> IF k \in skipped THEN "Skipped" ELSE "Pending"]]
                 /\ yearStats' = [yearStats EXCEPT ![y] =
                        [@ EXCEPT !.total = n, !.skipped = Cardinality(skipped)]]
                 /\ pc' = [pc EXCEPT ![y] = "mapping"]
                 /\ UNCHANGED stats
    /\ UNCHANGED <<exitCode, unitVars>>
    /\ UNCHANGED <<run, skipExisting, maxYears, maxDownloads, ledger, processed,
                   ledgerAtStart, idx, offset, everAccepted, completions,
                   appends>>

\* A worker of the year's download pool takes the next task of the queue.
StartDownload(y, k) ==
    /\ pc[y] \in {"mapping", "unwinding"}
    /\ state[y][k] = "Pending"
    /\ DownloadSlotFree(y)
    /\ \A j \in 1..FeedLen(y) : j < k => state[y][j] # "Pending"
    /\ state' = [state EXCEPT ![y][k] = "Downloading"]
    /\ UNCHANGED <<exitCode, unitVars>>
    /\ UNCHANGED <<run, skipExisting, maxYears, maxDownloads, ledger, processed,
                   ledgerAtStart, pc, idx, offset, yearStats, stats,
                   everAccepted, completions, appends>>

\* download_and_index_ojs up to index_package: the download succeeds, fails
\* with a RequestException (caught, success False) or raises anything else
\* (an OSError of the file write, the ValueError of int(ojs)), which the
\* function does not catch.
FinishDownload(y, k) ==
    /\ state[y][k] = "Downloading"
    /\ \E outcome \in {"ok", "request_exception", "other_exception"} :
         state' = [state EXCEPT ![y][k] =
                     CASE outcome = "ok" -> "Indexing"
                       [] outcome = "request_exception" -> "DownloadFailed"
                       [] OTHER -> "Raised"]
    /\ UNCHANGED <<exitCode, unitVars>>
    /\ UNCHANGED <<run, skipExisting, maxYears, maxDownloads, ledger, processed,
                   ledgerAtStart, pc, idx, offset, yearStats, stats,
                   everAccepted, completions, appends>>

\* index_package: the indexing subprocess ends.
FinishIndex(y, k) ==
    /\ state[y][k] = "Indexing"
    /\ \E outcome \in IndexOutcomes :
         /\ state' = [state EXCEPT ![y][k] =
                        IF IndexPackage(outcome) THEN "Completed" ELSE "IndexFailed"]
         /\ completions' = [completions EXCEPT ![<<y, k>>] =
                        IF IndexPackage(outcome) THEN @ + 1 ELSE @]
         /\ everAccepted' = IF outcome = "all_accepted"
                            THEN everAccepted \cup {<<y, k>>} ELSE everAccepted
    /\ UNCHANGED <<exitCode, unitVars>>
    /\ UNCHANGED <<run, skipExisting, maxYears, maxDownloads, ledger, processed,
                   ledgerAtStart, pc, idx, offset, yearStats, stats, appends>>

\* the first task whose future holds an exception, 0 if there is none
FirstRaised(y) ==
    IF \E k \in Tasks(y) : state[y][k] = "Raised"
    THEN CHOOSE k \in Tasks(y) :
           /\ state[y][k] = "Raised"
           /\ \A j \in Tasks(y) : state[y][j] = "Raised" => k <= j
    ELSE 0

\* results = list(executor.map(...)): the results are awaited in submission
\* order. When all are there the loop over the results starts; when one of
\* them is an exception it is raised as soon as the results before it are
\* there, and map cancels the tasks that have not started.
CollectResults(y) ==
    /\ pc[y] = "mapping"
    /\ LET r == FirstRaised(y) IN
       IF r # 0
       THEN /\ \A j \in Tasks(y) : j < r => state[y][j] \in Terminal
            /\ state' = [state EXCEPT ![y] =
                   [k \in DOMAIN state[y] |->
                      IF state[y][k] = "Pending" THEN "Cancelled" ELSE state[y][k]]]
            /\ pc' = [pc EXCEPT ![y] = "unwinding"]
            /\ UNCHANGED <<idx, stats>>
       ELSE /\ \A j \in Tasks(y) : state[y][j] \in Terminal
            /\ idx' = [idx EXCEPT ![y] = NextTask(y, 0)]
            /\ IF NextTask(y, 0) = 0
               THEN YearEnds(y, yearStats[y], TRUE)
               ELSE pc' = [pc EXCEPT ![y] = "results"] /\ UNCHANGED stats
            /\ UNCHANGED state
    /\ UNCHANGED <<exitCode, unitVars>>
    /\ UNCHANGED <<run, skipExisting, maxYears, maxDownloads, ledger, processed,
                   ledgerAtStart, offset, yearStats, everAccepted,
                   completions, appends>>

\* The exception leaves the with block of the download pool, which waits for
\* the running tasks, and then process_single_year.
Unwind(y) ==
    /\ pc[y] = "unwinding"
    /\ \A k \in Tasks(y) : state[y][k] \notin InFlight
    /\ YearEnds(y, yearStats[y], FALSE)
    /\ UNCHANGED <<exitCode, unitVars>>
    /\ UNCHANGED <<run, skipExisting, maxYears, maxDownloads, ledger, processed,
                   ledgerAtStart, state, idx, offset, yearStats,
                   everAccepted, completions, appends>>

\* One round of "for result in results": a failure is counted; a success is
\* counted and the tracking file is opened for appending.
ProcessResult(y) ==
    /\ pc[y] = "results"
    /\ IF ResultSuccess(y, idx[y])
       THEN /\ yearStats' = [yearStats EXCEPT ![y] = CountSuccess(@)]
            /\ offset' = [offset EXCEPT ![y] = Len(ledger)]
            /\ pc' = [pc EXCEPT ![y] = "append"]
            /\ UNCHANGED <<idx, stats>>
       ELSE /\ yearStats' = [yearStats EXCEPT ![y] = CountFailure(@)]
            /\ idx' = [idx EXCEPT ![y] = NextTask(y, idx[y])]
            /\ IF NextTask(y, idx[y]) = 0
               THEN YearEnds(y, CountFailure(yearStats[y]), TRUE)
               ELSE pc' = [pc EXCEPT ![y] = "results"] /\ UNCHANGED stats
            /\ UNCHANGED offset
    /\ UNCHANGED <<exitCode, unitVars>>
    /\ UNCHANGED <<run, skipExisting, maxYears, maxDownloads, ledger, processed,
                   ledgerAtStart, state, everAccepted, completions, appends>>

\* f.write(f"{package_id}\n"), the close of the file (whose position is
\* forgotten) and processed.add: the record lands at the end of file that the
\* year thread saw, no lock being held between finding the end of the file
\* and writing.
LedgerAppend(y) ==
    /\ pc[y] = "append"
    /\ LET id == Token(<<y, idx[y]>>) IN
         /\ ledger' = WriteAt(ledger, offset[y], LedgerRecord(id))
         /\ processed' = processed \cup {id}
    /\ appends' = appends + 1
    /\ offset' = [offset EXCEPT ![y] = 0]
    /\ idx' = [idx EXCEPT ![y] = NextTask(y, idx[y])]
    /\ IF NextTask(y, idx[y]) = 0
       THEN YearEnds(y, yearStats[y], TRUE)
       ELSE pc' = [pc EXCEPT ![y] = "results"] /\ UNCHANGED stats
    /\ UNCHANGED <<exitCode, unitVars>>
    /\ UNCHANGED <<run, skipExisting, maxYears, maxDownloads, ledgerAtStart,
                   state, yearStats, everAccepted, completions>>

\* process_year_range has combined every year and returns
RunFinished == \A y \in Years : pc[y] \in {"returned", "raised"}

\* main with the failed count at least two before it signals failure
ExitStatus_Tolerant(s) == IF s.failed > 1 THEN 1 ELSE 0

\* the status main ends with: sys.exit(1) when the result of
\* process_year_range has failures, the end of the script otherwise
ExitStatus(s) == IF s.failed > 0 THEN 1 ELSE 0

\* main after process_year_range returned
Exit ==
    /\ RunFinished
    /\ exitCode = <<>>
    /\ exitCode' = <<ExitStatus(stats)>>
    /\ UNCHANGED <<run, skipExisting, maxYears, maxDownloads, ledger, processed,
                   ledgerAtStart, pc, state, idx, offset, yearStats, stats,
                   everAccepted, completions, appends, unitVars>>

\* The orchestrator is started again over the same tracking file.
Restart ==
    /\ exitCode # <<>>
    /\ run < MaxRuns
    /\ run' = run + 1
    /\ \E skip \in BOOLEAN : StartOfRun(skip, ledger)
    /\ exitCode' = <<>>
    /\ UNCHANGED <<maxYears, maxDownloads, ledger, everAccepted, completions, appends>>
    /\ UNCHANGED unitVars

Next ==
    \/ \E y \in Years : BeginYear(y)
    \/ \E y \in Years : ScheduleYear(y)
    \/ \E y \in Years : \E k \in 1..FeedLen(y) : StartDownload(y, k)
    \/ \E y \in Years : \E k \in 1..FeedLen(y) : FinishDownload(y, k)
    \/ \E y \in Years : \E k \in 1..FeedLen(y) : FinishIndex(y, k)
    \/ \E y \in Years : CollectResults(y)
    \/ \E y \in Years : Unwind(y)
    \/ \E y \in Years : ProcessResult(y)
    \/ \E y \in Years : LedgerAppend(y)
    \/ Exit

Spec == Init /\ [][Next]_vars

\* main() from its start to its exit status: the same single run, under which
\* the properties of the pools, of the exit status and of a failed calendar
\* fetch are checked
SpecMain == Init /\ [][Next]_vars

NextRuns == Next \/ Restart

\* the orchestrator run MaxRuns times over the tracking file it creates
SpecRuns == InitRuns /\ [][NextRuns]_vars


\* the orchestrator is not running: the value of its variables in the
\* specifications of the parts checked on their own
OrchestratorIdle ==
    /\ run = 0
    /\ skipExisting = FALSE
    /\ maxYears = 1
    /\ maxDownloads = 1
    /\ ledger = <<>>
    /\ processed = {}
    /\ ledgerAtStart = {}
    /\ pc = [y \in Years |-> "submitted"]
    /\ state = [y \in Years |-> [k \in 1..FeedLen(y) |-> "None"]]
    /\ idx = [y \in Years |-> 0]
    /\ offset = [y \in Years |-> 0]
    /\ yearStats = [y \in Years |-> ZeroStats]
    /\ stats = ZeroStats
    /\ everAccepted = {}
    /\ completions = [p \in Pubs |-> 0]
    /\ appends = 0
    /\ exitCode = <<>>

\* ------------------------------------------- get_available_ojs_for_year
MaxRows == 2       \* rows of the feed after its first row

\* A row is the list of its columns. The second column is the text of a
\* date: wf says whether it has the shape digits/digits/four digits, and
\* d, m, y are the three numbers.
NoDate == [wf |-> FALSE, d |-> 0, m |-> 0, y |-> 0]
DateText(d, m, y) == [wf |-> TRUE, d |-> d, m |-> m, y |-> y]
DateTexts == {NoDate, DateText(29, 2, 2024), DateText(29, 2, 2023), DateText(1, 3, 2024),
              DateText(31, 12, 2023), DateText(1, 13, 2024)}
CsvRows == {<<"7">>} \cup {<<o, t>> : o \in {"1", "2"}, t \in DateTexts}
RECURSIVE SeqsUpTo(_, _)
SeqsUpTo(S, n) == IF n = 0 THEN {<<>>}
                  ELSE LET shorter == SeqsUpTo(S, n - 1)
                       IN shorter \cup {Append(q, x) : q \in {r \in shorter : Len(r) = n - 1}, x \in S}
\* datetime.now(): year, month, day, hour
Nows == {<<2023, 12, 31, 0>>, <<2024, 2, 29, 12>>, <<2024, 3, 1, 0>>}

IsLeap(y) == (y % 4 = 0 /\ y % 100 # 0) \/ y % 400 = 0
DaysInMonth(m, y) == IF m = 2 THEN (IF IsLeap(y) THEN 29 ELSE 28)
                     ELSE IF m \in {4, 6, 9, 11} THEN 30 ELSE 31

\* datetime.strptime(date_str, "%d/%m/%Y"): <<the datetime at midnight>>, or
\* <<>> for the ValueError
Strptime(t) == IF t.wf /\ t.m \in 1..12 /\ t.d \in 1..DaysInMonth(t.m, t.y)
               THEN <<(<<t.y, t.m, t.d, 0>>)>>
               ELSE <<>>

\* a <= b on datetimes
DatetimeLE(a, b) ==
    \/ a[1] < b[1]
    \/ a[1] = b[1] /\ a[2] < b[2]
    \/ a[1] = b[1] /\ a[2] = b[2] /\ a[3] < b[3]
    \/ a[1] = b[1] /\ a[2] = b[2] /\ a[3] = b[3] /\ a[4] <= b[4]

RECURSIVE ParseRows(_)
\* the loop of parse_csv over the rows the reader still has
ParseRows(rows) ==
    IF rows = <<>> THEN <<>>
    ELSE LET row == Head(rows)
             date == IF Len(row) >= 2 THEN Strptime(row[2]) ELSE <<>>
         IN (IF date # <<>> THEN <<(<<row[1], date[1]>>)>> ELSE <<>>)
            \o ParseRows(Tail(rows))

\* parse_csv reading the first row like every other row
ParseCsv_KeepsHeader(rows) == ParseRows(rows)

\* parse_csv: next(csv_reader, None) takes the first row away, the loop
\* parses the others
ParseCsv(rows) == IF rows = <<>> THEN <<>> ELSE ParseRows(Tail(rows))

RECURSIVE Insert(_, _)
\* x put behind the last element of the sorted list that is not after it
Insert(sorted, x) ==
    IF sorted = <<>> THEN <<x>>
    ELSE IF DatetimeLE(sorted[Len(sorted)][2], x[2]) THEN Append(sorted, x)
    ELSE Append(Insert(SubSeq(sorted, 1, Len(sorted) - 1), x), sorted[Len(sorted)])

RECURSIVE Sorted(_)
\* sorted(list, key=lambda x: x[1]): ascending by date, equal dates in the
\* order of the list
Sorted(list) == IF list = <<>> THEN <<>>
                ELSE Insert(Sorted(SubSeq(list, 1, Len(list) - 1)), list[Len(list)])

\* get_available_ojs_for_year after the feed was fetched
GetAvailableOjsForYear(rows, now) ==
    IF rows = <<>> THEN <<>>
    ELSE Sorted(SelectSeq(ParseCsv(rows), LAMBDA pub : DatetimeLE(pub[2], now)))

InitResolve ==
    /\ OrchestratorIdle
    /\ FormatIdle /\ IngestIdle /\ NormIdle /\ EnsureIdle
    /\ csvRows \in SeqsUpTo(CsvRows, MaxRows + 1)
    /\ today \in Nows
    /\ available = <<>>

Resolve ==
    /\ available = <<>>
    /\ available' = <<GetAvailableOjsForYear(csvRows, today)>>
    /\ UNCHANGED <<csvRows, today>>
    /\ UNCHANGED <<run, skipExisting, maxYears, maxDownloads, ledger, processed,
                   ledgerAtStart, pc, state, idx, offset, yearStats, stats,
                   everAccepted, completions, appends, exitCode>>
    /\ UNCHANGED <<formatVars, ingestVars, normVars, ensureVars>>

NextResolve == Resolve

\* get_available_ojs_for_year applied to every feed of at most MaxRows rows
\* after the first, at every time of Nows
SpecResolve == InitResolve /\ [][NextResolve]_vars

\* --------------------------------------------------- the archive path
MaxOjs == 1005     \* largest publication number given to the formatting

DigitValue(c) == CHOOSE d \in 0..9 : DigitChar(d) = c

RECURSIVE ParseInt(_)
\* int(ojs) of a text of decimal digits
ParseInt(text) == IF text = <<>> THEN 0
                  ELSE 10 * ParseInt(SubSeq(text, 1, Len(text) - 1)) + DigitValue(text[Len(text)])

\* the number written without padding
Pad3_Unpadded(n) == Digits(n)

\* f"{n:03d}": at least three digits, zeros in front
Pad3(n) == IF n < 10 THEN <<"0", "0">> \o Digits(n)
           ELSE IF n < 100 THEN <<"0">> \o Digits(n)
           ELSE Digits(n)

\* ojs_formatted = f"00{ojs_int:03d}"
OjsFormatted(ojs) == <<"0", "0">> \o Pad3(ParseInt(ojs))

\* the part of download_url and of output_filename that names the archive:
\* f"{year}{ojs_formatted}"
ArchiveName(year, ojs) == Digits(year) \o OjsFormatted(ojs)

\* the texts of a publication number: as written, and with a zero in front
OjsTexts == UNION {{Digits(n), <<"0">> \o Digits(n)} : n \in 0..MaxOjs}

InitFormat ==
    /\ OrchestratorIdle
    /\ ResolveIdle /\ IngestIdle /\ NormIdle /\ EnsureIdle
    /\ urlYear \in Years \cup {2024}
    /\ urlOjs \in OjsTexts
    /\ downloadUrl = <<>>

ConstructDownloadUrl ==
    /\ downloadUrl = <<>>
    /\ downloadUrl' = <<OjsFormatted(urlOjs),
                        <<"https://ted.europa.eu/packages/daily/">> \o ArchiveName(urlYear, urlOjs)>>
    /\ UNCHANGED <<urlYear, urlOjs>>
    /\ UNCHANGED <<run, skipExisting, maxYears, maxDownloads, ledger, processed,
                   ledgerAtStart, pc, state, idx, offset, yearStats, stats,
                   everAccepted, completions, appends, exitCode>>
    /\ UNCHANGED <<resolveVars, ingestVars, normVars, ensureVars>>

NextFormat == ConstructDownloadUrl

\* the archive path built for every year and every publication number up to
\* MaxOjs
SpecFormat == InitFormat /\ [][NextFormat]_vars

\* ------------------------------------------------------ index_xml_files
MaxFiles == 3      \* files found in the extracted package
MaxBulk == 2       \* largest --bulk-size

\* what the bulk endpoint can answer: every document accepted; a 2xx answer
\* with "errors": true and the items; no 2xx answer or no answer at all,
\* which bulk_index turns into {"errors": True, "items": []}
BulkOutcomes == {"accepted", "item_errors", "request_failed"}

\* process_xml_file giving a document for a file that did not parse
ProcessXmlFile_AlwaysDoc(f) == <<f>>

\* process_xml_file: <<the document of file f>>, or <<>> for the None that
\* stands for a file xml_to_dict could not parse (ParseError and every other
\* exception are caught there)
ProcessXmlFile(f) == IF xmlFiles[f] THEN <<f>> ELSE <<>>

\* the buffer flushed only when it has grown beyond bulk_size
BatchFull_Late(docs, size) == Len(docs) > size

\* len(processed_docs) >= bulk_size
BatchFull(docs, size) == Len(docs) >= size

\* the main thread not waiting for bulk_index, which it never does
LoopMayProceed_Async == ixpc \in {"loop", "bulk"}

\* the main thread is in the loop over the futures: bulk_index is an
\* ordinary call, the loop goes on when it has returned
LoopMayProceed == ixpc = "loop"

\* the buffer kept as it is after the call
AfterBulk_Keeps(docs) == docs

\* processed_docs = [] after the call of bulk_index in the loop
AfterBulk(docs) == <<>>

InitIngest ==
    /\ OrchestratorIdle
    /\ ResolveIdle /\ FormatIdle /\ NormIdle /\ EnsureIdle
    /\ xmlFiles \in SeqsUpTo(BOOLEAN, MaxFiles) \ {<<>>}
    /\ bulkSize \in 1..MaxBulk
    /\ numWorkers \in 1..MaxWorkers
    /\ futures = 1..Len(xmlFiles)
    /\ fileState = [f \in 1..Len(xmlFiles) |-> "queued"]
    /\ processedDocs = <<>>
    /\ consumed = <<>>
    /\ successCount = 0
    /\ errorCount = 0
    /\ bulkCalls = <<>>
    /\ ixpc = "loop"

IngestUnchanged ==
    /\ UNCHANGED <<run, skipExisting, maxYears, maxDownloads, ledger, processed,
                   ledgerAtStart, pc, state, idx, offset, yearStats, stats,
                   everAccepted, completions, appends, exitCode>>
    /\ UNCHANGED <<resolveVars, formatVars, normVars, ensureVars>>

\* A worker of the pool takes the next submitted file and runs
\* process_xml_file on it, whatever the main thread is doing.
StartNormalize(f) ==
    /\ f \in DOMAIN fileState
    /\ fileState[f] = "queued"
    /\ \A g \in DOMAIN fileState : g < f => fileState[g] # "queued"
    /\ Cardinality({g \in DOMAIN fileState : fileState[g] = "running"}) < numWorkers
    /\ fileState' = [fileState EXCEPT ![f] = "running"]
    /\ UNCHANGED <<xmlFiles, bulkSize, futures, processedDocs, successCount,
                   errorCount, bulkCalls, ixpc, numWorkers, consumed>>
    /\ IngestUnchanged

\* process_xml_file returns and the future is done
FinishNormalize(f) ==
    /\ f \in DOMAIN fileState
    /\ fileState[f] = "running"
    /\ fileState' = [fileState EXCEPT ![f] = "finished"]
    /\ UNCHANGED <<xmlFiles, bulkSize, futures, processedDocs, successCount,
                   errorCount, bulkCalls, ixpc, numWorkers, consumed>>
    /\ IngestUnchanged

\* One round of "for future in as_completed(futures)" up to the call of
\* bulk_index: a future that is done is taken, in any order; its result is
\* counted, a document is put into the buffer, and a full buffer is sent.
HandleFuture(f) ==
    /\ LoopMayProceed
    /\ f \in futures
    /\ fileState[f] = "finished"
    /\ futures' = futures \ {f}
    /\ LET result == ProcessXmlFile(f)
           docs == processedDocs \o result
       IN /\ successCount' = IF result # <<>> THEN successCount + 1 ELSE successCount
          /\ errorCount' = IF result # <<>> THEN errorCount ELSE errorCount + 1
          /\ consumed' = consumed \o result
          /\ processedDocs' = docs
          /\ IF BatchFull(docs, bulkSize)
             THEN /\ bulkCalls' = Append(bulkCalls, [docs |-> docs, outcome |-> "in_flight"])
                  /\ ixpc' = "bulk"
             ELSE UNCHANGED <<bulkCalls, ixpc>>
    /\ UNCHANGED <<xmlFiles, bulkSize, numWorkers, fileState>>
    /\ IngestUnchanged

\* bulk_index returns with the answer of the endpoint; in the loop the
\* buffer is emptied, after the loop index_xml_files logs the counts and ends
BulkReturns ==
    /\ ixpc \in {"bulk", "final_bulk"}
    /\ \E i \in 1..Len(bulkCalls) :
         /\ bulkCalls[i].outcome = "in_flight"
         /\ \A j \in 1..Len(bulkCalls) : bulkCalls[j].outcome = "in_flight" => i <= j
         /\ \E outcome \in BulkOutcomes :
              bulkCalls' = [bulkCalls EXCEPT ![i].outcome = outcome]
    /\ processedDocs' = IF ixpc = "bulk" THEN AfterBulk(processedDocs) ELSE processedDocs
    /\ ixpc' = IF ixpc = "bulk" THEN "loop" ELSE "done"
    /\ UNCHANGED <<xmlFiles, bulkSize, futures, successCount, errorCount,
                   numWorkers, fileState, consumed>>
    /\ IngestUnchanged

\* after the loop: the documents left in the buffer are sent
FinalFlush ==
    /\ ixpc = "loop"
    /\ futures = {}
    /\ IF processedDocs # <<>>
       THEN /\ bulkCalls' = Append(bulkCalls, [docs |-> processedDocs, outcome |-> "in_flight"])
            /\ ixpc' = "final_bulk"
       ELSE /\ ixpc' = "done"
            /\ UNCHANGED bulkCalls
    /\ UNCHANGED <<xmlFiles, bulkSize, futures, processedDocs, successCount,
                   errorCount, numWorkers, fileState, consumed>>
    /\ IngestUnchanged

NextIngest ==
    \/ \E f \in 1..MaxFiles : StartNormalize(f)
    \/ \E f \in 1..MaxFiles : FinishNormalize(f)
    \/ \E f \in 1..MaxFiles : HandleFuture(f)
    \/ BulkReturns
    \/ FinalFlush

\* index_xml_files over every package of at most MaxFiles files, every
\* completion order and every answer of the bulk endpoint
SpecIngest == InitIngest /\ [][NextIngest]_vars

\* ------------------------------------------------------- element_to_dict
MaxChildren == 3   \* children of the element given to element_to_dict

\* An element is [tag, attrib, text, children]: attrib is the list of its
\* <<name, value>> pairs, text is "" when the element has none, children is
\* the list of its child elements. A dictionary is the list of its
\* <<key, value>> pairs in insertion order; a value is a string (an attribute
\* or the text), a dictionary (a child) or a list.
Str(text) == [kind |-> "str", v |-> text]
Dict(d) == [kind |-> "dict", v |-> d]
List(l) == [kind |-> "list", v |-> l]

Keys(d) == {d[i][1] : i \in 1..Len(d)}
Get(d, k) == d[CHOOSE i \in 1..Len(d) : d[i][1] = k][2]
\* d[k] = v
Put(d, k, v) == IF k \in Keys(d)
                THEN [i \in 1..Len(d) |-> IF d[i][1] = k THEN <<k, v>> ELSE d[i]]
                ELSE Append(d, <<k, v>>)

RECURSIVE Update(_, _)
\* result.update(element.attrib)
Update(d, attrib) == IF attrib = <<>> THEN d
                     ELSE Update(Put(d, attrib[1][1], Str(attrib[1][2])), Tail(attrib))

\* text.strip() of the texts of ElementTexts and LeafTexts
Strip(text) == CASE text = " " -> ""
                 [] text = " t " -> "t"
                 [] OTHER -> text

RECURSIVE ElementToDict(_)
RECURSIVE MergeChildren(_, _)

\* the child put in the place of whatever the key held
MergeChild_Overwrites(result, child) ==
    Put(result, child.tag, Dict(ElementToDict(child)))

\* a second child with the same tag put in the place of the first, a child
\* joined to anything else the key holds
MergeChild_NoPromotion(result, child) ==
    LET child_dict == Dict(ElementToDict(child)) IN
    IF child.tag \in Keys(result)
    THEN LET old == Get(result, child.tag) IN
         CASE old.kind = "dict" -> Put(result, child.tag, child_dict)
           [] old.kind = "list" -> Put(result, child.tag, List(Append(old.v, child_dict)))
           [] OTHER -> Put(result, child.tag, List(<<old, child_dict>>))
    ELSE Put(result, child.tag, child_dict)

\* one round of "for child in element": a key that is already there, from
\* an attribute, the text or an earlier child, is turned into a list unless
\* it is one, and the child is appended to it
MergeChild(result, child) ==
    LET child_dict == Dict(ElementToDict(child)) IN
    IF child.tag \in Keys(result)
    THEN LET old == Get(result, child.tag)
             list == IF old.kind # "list" THEN <<old>> ELSE old.v
         IN Put(result, child.tag, List(Append(list, child_dict)))
    ELSE Put(result, child.tag, child_dict)

MergeChildren(result, children) ==
    IF children = <<>> THEN result
    ELSE MergeChildren(MergeChild(result, Head(children)), Tail(children))

\* element_to_dict: the attributes, the stripped text under "text" when it
\* is not empty, then the children in document order
ElementToDict(e) ==
    LET attrs == Update(<<>>, e.attrib)
        withText == IF e.text # "" /\ Strip(e.text) # ""
                    THEN Put(attrs, "text", Str(Strip(e.text)))
                    ELSE attrs
    IN MergeChildren(withText, e.children)

Leaf(tag, text) == [tag |-> tag, attrib |-> <<>>, text |-> text, children |-> <<>>]
LeafTexts == {"a", "b"}
ChildTags == {"note", "item", "text"}
\* the children: leaves, and one element with an attribute and a child
ChildElements ==
    {Leaf(t, x) : t \in ChildTags, x \in LeafTexts} \cup
    {[tag |-> "item", attrib |-> <<(<<"lang", "en">>)>>, text |-> "",
      children |-> <<Leaf("note", "a")>>]}
Attribs == {<<>>, <<(<<"note", "n">>)>>, <<(<<"lang", "en">>)>>,
            <<(<<"lang", "en">>), (<<"note", "n">>)>>}
ElementTexts == {"", " ", " t "}

InitNormalize ==
    /\ OrchestratorIdle
    /\ ResolveIdle /\ FormatIdle /\ IngestIdle /\ EnsureIdle
    /\ element \in {[tag |-> "notice", attrib |-> a, text |-> x, children |-> c] :
                      a \in Attribs, x \in ElementTexts,
                      c \in SeqsUpTo(ChildElements, MaxChildren)}
    /\ doc = <<>>

Normalize ==
    /\ doc = <<>>
    /\ doc' = <<ElementToDict(element)>>
    /\ UNCHANGED element
    /\ UNCHANGED <<run, skipExisting, maxYears, maxDownloads, ledger, processed,
                   ledgerAtStart, pc, state, idx, offset, yearStats, stats,
                   everAccepted, completions, appends, exitCode>>
    /\ UNCHANGED <<resolveVars, formatVars, ingestVars, ensureVars>>

NextNormalize == Normalize

\* element_to_dict applied to every element with up to MaxChildren children
SpecNormalize == InitNormalize /\ [][NextNormalize]_vars

\* ------------------------------ create_index_if_not_exists and bulk_index
\* field_limit: the default of OPENSEARCH_FIELD_LIMIT
FieldLimit == 30000

\* the indexer processes running at the same time, one for each package a
\* download pool is indexing
Callers == {1, 2}

\* index.mapping.total_fields.limit of an index: 0 when it is not set
Limits == {0, 1000, FieldLimit}

NoIndex == [exists |-> FALSE, open |-> FALSE, limit |-> 0, closedBy |-> 0]

\* what a request can come to, apart from what the server answers when it
\* handles it: a status that is neither 2xx nor 404, an exception of requests
Faults == {"status", "raise"}

\* bulk_index letting the exception of requests.post reach its caller
BulkIndex_Raises(n, response) ==
    IF n = 0 THEN [errors |-> FALSE, items |-> 0, sent |-> FALSE, raised |-> FALSE]
    ELSE CASE response = "ok" -> [errors |-> FALSE, items |-> n, sent |-> TRUE, raised |-> FALSE]
           [] response = "item_errors" -> [errors |-> TRUE, items |-> n, sent |-> TRUE, raised |-> FALSE]
           [] response = "raise" -> [errors |-> TRUE, items |-> 0, sent |-> TRUE, raised |-> TRUE]
           [] OTHER -> [errors |-> TRUE, items |-> 0, sent |-> TRUE, raised |-> FALSE]

\* bulk_index on n documents: what it returns (errors, number of items),
\* whether a request was made and whether an exception leaves it. No
\* documents: no request. A 2xx answer is returned as it is; any other status
\* and any exception become {"errors": True, "items": []}.
BulkIndex(n, response) ==
    IF n = 0 THEN [errors |-> FALSE, items |-> 0, sent |-> FALSE, raised |-> FALSE]
    ELSE CASE response = "ok" -> [errors |-> FALSE, items |-> n, sent |-> TRUE, raised |-> FALSE]
           [] response = "item_errors" -> [errors |-> TRUE, items |-> n, sent |-> TRUE, raised |-> FALSE]
           [] OTHER -> [errors |-> TRUE, items |-> 0, sent |-> TRUE, raised |-> FALSE]

NoBulk == BulkIndex(0, "none")

\* only the requests of the close, update, reopen sequence guarded
EnsureCatches_InnerOnly(kind) == kind \in {"close", "update", "open"}

\* "except Exception" around the close, update, reopen sequence and around
\* the whole function: no exception of a request leaves it
EnsureCatches(kind) == TRUE

\* the settings of an existing index always rewritten
NeedsUpdate_Always(current_limit) == TRUE

\* the settings of an existing index never rewritten
NeedsUpdate_Never(current_limit) == FALSE

\* not current_limit or int(current_limit) < field_limit
NeedsUpdate(current_limit) == current_limit = 0 \/ current_limit < FieldLimit

\* the request is added to the requests of process c
Log(c, kind, result, n, ret) ==
    reqs' = [reqs EXCEPT ![c] = Append(@, [kind |-> kind, result |-> result,
                                            n |-> n, ret |-> ret])]

\* where an exception of a request of the given kind takes the process
AfterRaise(kind) == IF EnsureCatches(kind) THEN "ingest" ELSE "raised"

InitEnsure ==
    /\ OrchestratorIdle
    /\ ResolveIdle /\ FormatIdle /\ IngestIdle /\ NormIdle
    /\ index \in {NoIndex} \cup
                 {[exists |-> TRUE, open |-> TRUE, limit |-> l, closedBy |-> 0] : l \in Limits}
    /\ epc = [c \in Callers |-> "head"]
    /\ curLimit = [c \in Callers |-> 0]
    /\ reqs = [c \in Callers |-> <<>>]

EnsureUnchanged ==
    /\ UNCHANGED <<run, skipExisting, maxYears, maxDownloads, ledger, processed,
                   ledgerAtStart, pc, state, idx, offset, yearStats, stats,
                   everAccepted, completions, appends, exitCode>>
    /\ UNCHANGED <<resolveVars, formatVars, ingestVars, normVars>>

\* requests.head: 404 leads to the creation, 200 to the check of the
\* settings, any other status is logged
HeadIndex(c) ==
    /\ epc[c] = "head"
    /\ \E o \in {"ok"} \cup Faults :
         LET result == IF o # "ok" THEN o ELSE IF index.exists THEN "ok" ELSE "absent"
         IN /\ Log(c, "head", result, 0, NoBulk)
            /\ epc' = [epc EXCEPT ![c] = CASE result = "ok" -> "settings"
                                           [] result = "absent" -> "create"
                                           [] result = "status" -> "ingest"
                                           [] OTHER -> AfterRaise("head")]
    /\ UNCHANGED <<index, curLimit>>
    /\ EnsureUnchanged

\* requests.put of the index with its settings; the server refuses to create
\* an index that exists
CreateIndex(c) ==
    /\ epc[c] = "create"
    /\ \E o \in {"ok"} \cup Faults :
         LET result == IF o # "ok" THEN o ELSE IF index.exists THEN "exists" ELSE "ok"
         IN /\ Log(c, "create", result, 0, NoBulk)
            /\ index' = IF result = "ok"
                        THEN [exists |-> TRUE, open |-> TRUE, limit |-> FieldLimit, closedBy |-> 0]
                        ELSE index
            /\ epc' = [epc EXCEPT ![c] = IF result = "raise" THEN AfterRaise("create")
                                         ELSE "ingest"]
    /\ UNCHANGED curLimit
    /\ EnsureUnchanged

\* requests.get of the settings and the test of the limit
GetSettings(c) ==
    /\ epc[c] = "settings"
    /\ \E o \in {"ok"} \cup Faults :
         /\ Log(c, "settings", o, 0, NoBulk)
         /\ curLimit' = [curLimit EXCEPT ![c] = IF o = "ok" THEN index.limit ELSE @]
         /\ epc' = [epc EXCEPT ![c] = CASE o = "ok" -> IF NeedsUpdate(index.limit)
                                                        THEN "close" ELSE "ingest"
                                        [] o = "status" -> "ingest"
                                        [] OTHER -> AfterRaise("settings")]
    /\ UNCHANGED index
    /\ EnsureUnchanged

\* requests.post of _close; the update follows only a 2xx answer
CloseIndex(c) ==
    /\ epc[c] = "close"
    /\ \E o \in {"ok"} \cup Faults :
         /\ Log(c, "close", o, 0, NoBulk)
         /\ index' = IF o = "ok" THEN [index EXCEPT !.open = FALSE, !.closedBy = c] ELSE index
         /\ epc' = [epc EXCEPT ![c] = CASE o = "ok" -> "update"
                                        [] o = "status" -> "ingest"
                                        [] OTHER -> AfterRaise("close")]
    /\ UNCHANGED curLimit
    /\ EnsureUnchanged

\* requests.put of the settings; a status that is not 2xx is logged and the
\* reopen follows, an exception leaves the sequence
UpdateSettings(c) ==
    /\ epc[c] = "update"
    /\ \E o \in {"ok"} \cup Faults :
         /\ Log(c, "update", o, 0, NoBulk)
         /\ index' = IF o = "ok" THEN [index EXCEPT !.limit = FieldLimit] ELSE index
         /\ epc' = [epc EXCEPT ![c] = IF o = "raise" THEN AfterRaise("update") ELSE "open"]
    /\ UNCHANGED curLimit
    /\ EnsureUnchanged

\* requests.post of _open, the last request of the function
OpenIndex(c) ==
    /\ epc[c] = "open"
    /\ \E o \in {"ok"} \cup Faults :
         /\ Log(c, "open", o, 0, NoBulk)
         /\ index' = IF o = "ok" THEN [index EXCEPT !.open = TRUE, !.closedBy = 0] ELSE index
         /\ epc' = [epc EXCEPT ![c] = IF o = "raise" THEN AfterRaise("open") ELSE "ingest"]
    /\ UNCHANGED curLimit
    /\ EnsureUnchanged

\* index_xml_files after create_index_if_not_exists: a call of bulk_index
\* with n documents. The server refuses documents for a closed index and
\* creates an index that does not exist, with no limit set.
Bulk(c) ==
    /\ epc[c] = "ingest"
    /\ \E n \in 0..MaxBulk : \E o \in {"ok", "item_errors"} \cup Faults :
         LET response == IF n = 0 THEN "none"
                         ELSE IF o \in Faults THEN o
                         ELSE IF index.exists /\ ~index.open THEN "closed"
                         ELSE o
             ret == BulkIndex(n, response)
         IN /\ n = 0 => o = "ok"
            /\ Log(c, "bulk", response, n, ret)
            /\ index' = IF response \in {"ok", "item_errors"} /\ ~index.exists
                        THEN [exists |-> TRUE, open |-> TRUE, limit |-> 0, closedBy |-> 0]
                        ELSE index
            /\ epc' = [epc EXCEPT ![c] = IF ret.raised THEN "raised" ELSE "done"]
    /\ UNCHANGED curLimit
    /\ EnsureUnchanged

NextEnsure ==
    \/ \E c \in Callers : HeadIndex(c)
    \/ \E c \in Callers : CreateIndex(c)
    \/ \E c \in Callers : GetSettings(c)
    \/ \E c \in Callers : CloseIndex(c)
    \/ \E c \in Callers : UpdateSettings(c)
    \/ \E c \in Callers : OpenIndex(c)
    \/ \E c \in Callers : Bulk(c)

\* two indexer processes ensuring and loading the same index, every request
\* answered or failing in every way
SpecEnsure == InitEnsure /\ [][NextEnsure]_vars

\* ------------------------------------------------- helpers of the properties
LedgerLines == LineSeq(ledger, <<>>)

LineCount(id) == Cardinality({i \in 1..Len(LedgerLines) : LedgerLines[i] = id})

InLedger(p) == LineCount(Token(p)) > 0

\* the year thread has appended the token of publication k
Appended(y, k) ==
    /\ state[y][k] = "Completed"
    /\ \/ pc[y] = "returned"
       \/ pc[y] \in {"results", "append"} /\ idx[y] > k

Resolved(y) == {k \in 1..FeedLen(y) : state[y][k] # "None"}

InState(S) == {p \in Pubs : state[p[1]][p[2]] \in S}

\* ------------------------------------------------------------------ claims
\* C1: a token is in the ledger iff every document of that package was
\* accepted by the bulk endpoint at least once; a package whose bulk loads
\* reported errors gets no token. (The "if" half is required once the run
\* has finished, when no append is outstanding.)
C1_LedgerIffFullyIndexed ==
    \A p \in Pubs :
        /\ InLedger(p) => p \in everAccepted
        /\ (RunFinished /\ p \in everAccepted) => InLedger(p)

\* C2: over two runs with skip-existing enabled in the second, a publication
\* makes at most one Completed transition and has at most one ledger entry.
C2_OneCompletionOneEntry ==
    (run = 2 /\ skipExisting) =>
        \A p \in Pubs : completions[p] <= 1 /\ LineCount(Token(p)) <= 1

\* C3: a record is written to the ledger only by a year thread that is
\* looking at a Completed publication, and the record is that publication's
\* token; DownloadFailed, IndexFailed and Skipped publications write nothing.
C3_OnlyCompletedWritesToken ==
    [][ /\ \A y \in Years :
             (pc[y] # "append" /\ pc'[y] = "append") =>
                 state[y][idx[y]] = "Completed"
        /\ (ledger' # ledger) =>
             \E y \in Years :
                 /\ pc[y] = "append"
                 /\ state[y][idx[y]] = "Completed"
                 /\ ledger' = WriteAt(ledger, offset[y],
                                      LedgerRecord(Token(<<y, idx[y]>>)))
      ]_vars

\* C3 witness: a year has returned with one publication Completed and
\* appended and a sibling failed, whose token is not in the ledger.
C3_Witness ==
    \E y \in Years : \E k, j \in 1..FeedLen(y) :
        /\ pc[y] = "returned"
        /\ state[y][k] = "Completed" /\ InLedger(<<y, k>>)
        /\ state[y][j] \in {"IndexFailed", "DownloadFailed"}
        /\ ~InLedger(<<y, j>>)

\* C4: the ledger is append-only: every step keeps the file's contents as a
\* prefix of the new contents, and every line present stays present.
C4_AppendOnly ==
    [][ /\ Len(ledger') >= Len(ledger)
        /\ SubSeq(ledger', 1, Len(ledger)) = ledger
        /\ LoadProcessed(ledger) \subseteq LoadProcessed(ledger')
      ]_vars

\* C5: once a publication is Completed its token is written before any other
\* publication of the year is taken up: no sibling download starts while a
\* Completed publication's token is still unwritten.
C5_AppendBeforeSiblings ==
    [][ \A y \in Years : \A k, j \in 1..FeedLen(y) :
          (j # k /\ state[y][k] = "Completed" /\ ~Appended(y, k)) =>
              ~(state[y][j] = "Pending" /\ state'[y][j] = "Downloading")
      ]_vars

\* C6: errors of one publication are isolated: when the run has finished,
\* every resolved publication has been processed to a terminal state, every
\* one of them is counted in the aggregate result, each failed one as one
\* failure, and every Completed one is in the ledger.
C6_ErrorsIsolated ==
    RunFinished =>
        /\ \A y \in Years : \A k \in Resolved(y) :
              state[y][k] \in {"Skipped", "Completed", "IndexFailed",
                               "DownloadFailed", "Raised"}
        /\ stats.total = Cardinality(InState({"Skipped"} \cup Terminal))
        /\ stats.failed = Cardinality(InState({"IndexFailed", "DownloadFailed", "Raised"}))
        /\ stats.indexed = Cardinality(InState({"Completed"}))
        /\ \A p \in InState({"Completed"}) : InLedger(p)

\* C7: after any interleaving of appends the ledger consists only of
\* complete newline-terminated tokens, one per append.
C7_LedgerWellFormed ==
    /\ ledger # <<>> => ledger[Len(ledger)] = "\n"
    /\ \A i \in 1..Len(LedgerLines) : \E p \in Pubs : LedgerLines[i] = Token(p)
    /\ Len(LedgerLines) = appends

C9_SkipIffEnabledAndInLedger ==
    \A y \in Years :
        /\ \A k \in Resolved(y) :
              (state[y][k] = "Skipped") <=>
                  (skipExisting /\ Token(<<y, k>>) \in ledgerAtStart)
        /\ yearStats[y].skipped =
              Cardinality({k \in Resolved(y) : state[y][k] = "Skipped"})

\* C9 witness: a run with skip-existing has skipped and counted a publication
\* that was in the ledger at its start.
C9_Witness ==
    /\ skipExisting /\ RunFinished /\ stats.skipped > 0
    /\ \E p \in Pubs : state[p[1]][p[2]] = "Skipped" /\ Token(p) \in ledgerAtStart

\* C10: at most maxConcurrentYears years are being processed, at most
\* maxConcurrentDownloads publications of a year are Downloading or
\* Indexing, and so at most their product are in flight.
C10_ConcurrencyBounds ==
    /\ Cardinality(RunningYears) <= maxYears
    /\ \A y \in Years :
          Cardinality({k \in 1..FeedLen(y) : state[y][k] \in InFlight}) <= maxDownloads
    /\ Cardinality(InState(InFlight)) <= maxYears * maxDownloads

\* C10 witness: both pools are full while a year and a download wait.
C10_Witness ==
    /\ Cardinality(RunningYears) = maxYears
    /\ \E y \in Years : pc[y] = "submitted"
    /\ \E y \in Years :
          /\ Cardinality({k \in 1..FeedLen(y) : state[y][k] \in InFlight}) = maxDownloads
          /\ \E k \in 1..FeedLen(y) : state[y][k] = "Pending"


RECURSIVE SumYearStats(_)
\* the field-by-field sum of year_stats over a set of years
SumYearStats(Y) ==
    IF Y = {} THEN ZeroStats
    ELSE LET y == CHOOSE y \in Y : TRUE
         IN AddStats(yearStats[y], SumYearStats(Y \ {y}))

\* C11: the final result of process_year_range is the field-by-field sum of
\* the year_stats of all years of the range, so that every publication
\* resolved for any year is counted in total, also when its year ended with
\* an error.
C11_ResultIsSumOfYears ==
    RunFinished =>
        /\ stats = SumYearStats(Years)
        /\ stats.total = Cardinality({p \in Pubs : state[p[1]][p[2]] # "None"})

FetchFailed == {y \in Years : /\ FeedLen(y) > 0
                              /\ pc[y] \in {"returned", "raised"}
                              /\ \A k \in 1..FeedLen(y) : state[y][k] = "None"}

\* C13: a year whose calendar fetch failed returns normally with every
\* counter zero (the failure is not raised), holds no worker of the year pool,
\* and the final result is the sum over the other years that returned.
C13_FetchFailureGivesEmptyYear ==
    \A y \in FetchFailed :
        /\ pc[y] = "returned"
        /\ yearStats[y] = ZeroStats
        /\ y \notin RunningYears
        /\ RunFinished =>
             stats = SumYearStats({z \in Years \ {y} : pc[z] = "returned"})

\* the calendar fetch of the first year failed and a publication of another
\* year was resolved, downloaded, indexed and counted
C13_Witness ==
    /\ StartYear \in FetchFailed
    /\ \E p \in InState({"Completed"}) : p[1] # StartYear /\ pc[p[1]] = "returned"
    /\ RunFinished
    /\ stats.indexed > 0

\* the rows after the first that have a date which parses and is not after
\* today
Qualifying == {j \in 2..Len(csvRows) :
                 /\ Len(csvRows[j]) >= 2
                 /\ Strptime(csvRows[j][2]) # <<>>
                 /\ DatetimeLE(Strptime(csvRows[j][2])[1], today)}

QualifyingEntry(j) == <<csvRows[j][1], Strptime(csvRows[j][2])[1]>>

\* C14: the list returned holds exactly the rows after the header whose date
\* parses and is not after now, each as often as the feed has it, in
\* ascending order of date; the first row, rows without a parseable date and
\* dates after now are never returned.
C14_ResolveExact ==
    available # <<>> =>
        LET out == available[1] IN
        /\ Len(out) = Cardinality(Qualifying)
        /\ \A i \in 1..Len(out) :
             Cardinality({k \in 1..Len(out) : out[k] = out[i]}) =
             Cardinality({j \in Qualifying : QualifyingEntry(j) = out[i]})
        /\ \A i, k \in 1..Len(out) : i < k => DatetimeLE(out[i][2], out[k][2])

\* a feed whose first row has a date that parses, with a later row dated
\* today, which is returned, and another row that is not
C14_Witness ==
    /\ available # <<>>
    /\ Len(csvRows) >= 2
    /\ Len(csvRows[1]) >= 2 /\ Strptime(csvRows[1][2]) # <<>>
    /\ Len(csvRows) > Cardinality(Qualifying) + 1
    /\ \E j \in Qualifying : Strptime(csvRows[j][2])[1][3] = today[3]
    /\ Len(available[1]) >= 1

\* C15: for a publication number n of 0..999 the formatted identifier is
\* exactly five digits, "00" followed by n zero-padded to three digits, and it
\* follows the year in the archive path: publication 103 of 2024 gives
\* 202400103.
C15_FiveDigitIdentifier ==
    (downloadUrl # <<>> /\ ParseInt(urlOjs) <= 999) =>
        LET f == downloadUrl[1]
            url == downloadUrl[2]
        IN /\ Len(f) = 5
           /\ \A i \in 1..5 : \E d \in 0..9 : f[i] = DigitChar(d)
           /\ f[1] = "0" /\ f[2] = "0"
           /\ 100 * DigitValue(f[3]) + 10 * DigitValue(f[4]) + DigitValue(f[5])
                = ParseInt(urlOjs)
           /\ SubSeq(url, 2, Len(url)) = Digits(urlYear) \o f
           /\ (urlYear = 2024 /\ ParseInt(urlOjs) = 103) =>
                SubSeq(url, 2, Len(url)) = <<"2", "0", "2", "4", "0", "0", "1", "0", "3">>

\* the path of publication 7 of 2024, given as the text "07", was built
C15_Witness ==
    /\ downloadUrl # <<>>
    /\ urlYear = 2024
    /\ urlOjs = <<"0", "7">>
    /\ downloadUrl[1] = <<"0", "0", "0", "0", "7">>

\* the files whose markup parses
Parseable == {f \in 1..Len(xmlFiles) : xmlFiles[f]}

\* C16: with N documents and bulk size B, index_xml_files sends N \div B
\* batches of exactly B documents and then one batch of N % B documents when
\* that is not zero; no batch is larger than B, none is empty, and a batch
\* smaller than B is only the last one, sent after the loop.
C16_BatchSizes ==
    /\ \A i \in 1..Len(bulkCalls) :
         /\ Len(bulkCalls[i].docs) \in 1..bulkSize
         /\ Len(bulkCalls[i].docs) < bulkSize =>
              (ixpc \in {"final_bulk", "done"} /\ i = Len(bulkCalls))
    /\ ixpc = "done" =>
         LET N == Cardinality(Parseable)
             full == N \div bulkSize
             rest == N % bulkSize
         IN /\ Len(bulkCalls) = full + (IF rest > 0 THEN 1 ELSE 0)
            /\ \A i \in 1..full : Len(bulkCalls[i].docs) = bulkSize
            /\ rest > 0 => Len(bulkCalls[Len(bulkCalls)].docs) = rest

\* three documents with bulk size two: one full batch and a remainder of one
C16_Witness ==
    /\ ixpc = "done"
    /\ Cardinality(Parseable) = 3
    /\ bulkSize = 2
    /\ Len(bulkCalls) = 2
    /\ Len(bulkCalls[2].docs) = 1

\* the documents of the batches the endpoint answered with the given outcomes
DocsAnswered(outcomes) ==
    UNION {{bulkCalls[i].docs[j] : j \in 1..Len(bulkCalls[i].docs)} :
             i \in {k \in 1..Len(bulkCalls) : bulkCalls[k].outcome \in outcomes}}

\* C17: the counts index_xml_files ends with have attempted = number of
\* files, and a document of a batch that came back with errors true and no
\* items is counted as failed and not as indexed.
C17_CountsFollowBulkOutcomes ==
    ixpc = "done" =>
        /\ successCount + errorCount = Len(xmlFiles)
        /\ successCount <= Cardinality(Parseable \ DocsAnswered({"request_failed"}))
        /\ errorCount >= Cardinality(DocsAnswered({"request_failed"}))

\* C18: a file that does not parse gives no document and is counted as
\* exactly one error; the loop goes on: every other file is counted as a
\* success and its document is sent in exactly one batch, and documents plus
\* errors are the files handled so far, all files at the end.
C18_ParseFailureIsOneError ==
    /\ successCount + errorCount = Len(xmlFiles) - Cardinality(futures)
    /\ errorCount = Cardinality({f \in 1..Len(xmlFiles) : ~xmlFiles[f]} \ futures)
    /\ DocsAnswered(BulkOutcomes) \subseteq Parseable
    /\ ixpc = "done" =>
         /\ futures = {}
         /\ DocsAnswered(BulkOutcomes) = Parseable
         /\ \A f \in Parseable :
              Cardinality({<<i, j>> \in (1..Len(bulkCalls)) \X (1..MaxFiles) :
                             j <= Len(bulkCalls[i].docs) /\ bulkCalls[i].docs[j] = f}) = 1

\* the first file of three does not parse; it was counted as one error and
\* the two others were normalized, counted and sent
C18_Witness ==
    /\ ixpc = "done"
    /\ xmlFiles = <<FALSE, TRUE, TRUE>>
    /\ errorCount = 1
    /\ successCount = 2
    /\ DocsAnswered(BulkOutcomes) = {2, 3}

\* the children of the element with tag t, in document order
ChildrenTagged(t) == SelectSeq(element.children, LAMBDA c : c.tag = t)

AttribNames == {element.attrib[i][1] : i \in 1..Len(element.attrib)}
AttribValue(n) == element.attrib[CHOOSE i \in 1..Len(element.attrib) : element.attrib[i][1] = n][2]
ChildTagsOf == {element.children[i].tag : i \in 1..Len(element.children)}

\* the keys the element has before its children are merged: its attribute
\* names, and "text" when it has text
OwnKeys == AttribNames \cup (IF Strip(element.text) # "" THEN {"text"} ELSE {})

\* the list l is the sub-documents of the children tagged t, in document
\* order, from position from on
HoldsChildren(l, from, t) ==
    /\ Len(l) = from - 1 + Len(ChildrenTagged(t))
    /\ \A i \in 1..Len(ChildrenTagged(t)) :
         /\ l[from - 1 + i].kind = "dict"
         /\ l[from - 1 + i].v = ElementToDict(ChildrenTagged(t)[i])

FieldOfChildren(t) ==
    LET field == Get(doc[1], t) IN
    IF Len(ChildrenTagged(t)) = 1
    THEN field.kind = "dict" /\ field.v = ElementToDict(ChildrenTagged(t)[1])
    ELSE field.kind = "list" /\ HoldsChildren(field.v, 1, t)

\* C20 as claimed: for any children, a tag that occurs once is stored as the
\* child's sub-document, a tag that occurs twice as the list [first, second],
\* and further occurrences are appended in document order.
C20_RepeatedTagsBecomeList ==
    doc # <<>> => \A t \in ChildTagsOf : FieldOfChildren(t)

\* C20, amended: the same for every tag that is neither the name of an
\* attribute of the element nor "text" in an element that has text.
C20_RepeatedTagsBecomeListUnlessKeyTaken ==
    doc # <<>> => \A t \in ChildTagsOf \ OwnKeys : FieldOfChildren(t)

\* an element with three children item and no attribute of that name was
\* normalized
C20_Witness ==
    /\ doc # <<>>
    /\ Len(ChildrenTagged("item")) = 3
    /\ "item" \notin OwnKeys
    /\ Get(doc[1], "item").kind = "list"
    /\ Len(Get(doc[1], "item").v) = 3

\* C26: when the run has ended, every publication that was resolved and not
\* skipped has gone Pending, Downloading and then DownloadFailed, or Indexing
\* and then Completed or IndexFailed: it is in exactly one of these three
\* terminal states.
C26_PublicationStateMachine ==
    RunFinished =>
        \A p \in InState(Terminal \cup InFlight \cup {"Pending"}) :
            state[p[1]][p[2]] \in {"Completed", "IndexFailed", "DownloadFailed"}

\* C29: the statistics a year returns have total = skipped + indexed + failed
\* and downloaded = indexed; skipped, indexed and failed are the numbers of the
\* year's publications that were skipped, completed, and failed in download or
\* in indexing, so that a publication downloaded but not indexed is counted
\* under failed only.
C29_YearStatsPartition ==
    \A y \in Years : pc[y] = "returned" =>
        LET ys == yearStats[y]
            in(S) == Cardinality({k \in 1..FeedLen(y) : state[y][k] \in S})
        IN /\ ys.total = ys.skipped + ys.indexed + ys.failed
           /\ ys.downloaded = ys.indexed
           /\ ys.skipped = in({"Skipped"})
           /\ ys.indexed = in({"Completed"})
           /\ ys.failed = in({"IndexFailed", "DownloadFailed"})
           /\ ys.total = in({"Skipped", "Completed", "IndexFailed", "DownloadFailed"})

\* a year has returned with one publication skipped, and one downloaded whose
\* indexing failed
C29_Witness ==
    \E y \in Years :
        /\ pc[y] = "returned"
        /\ \E k \in 1..FeedLen(y) : state[y][k] = "IndexFailed"
        /\ \E k \in 1..FeedLen(y) : state[y][k] = "Skipped"
        /\ yearStats[y].downloaded = 0

RECURSIVE Flatten(_)
\* the documents of a list of calls, in the order they were sent
Flatten(calls) == IF calls = <<>> THEN <<>>
                  ELSE Flatten(SubSeq(calls, 1, Len(calls) - 1)) \o calls[Len(calls)].docs

InFlightCalls == {i \in 1..Len(bulkCalls) : bulkCalls[i].outcome = "in_flight"}

\* C27: at most one bulk request is in flight, it is the last one sent and
\* the main thread is waiting for it; the batches are sent in the order in
\* which they filled: their documents, one batch after the other, are the
\* documents in the order they entered the buffer.
C27_BulkLoadsSerialized ==
    /\ Cardinality(InFlightCalls) <= 1
    /\ InFlightCalls \subseteq {Len(bulkCalls)}
    /\ (InFlightCalls # {}) <=> (ixpc \in {"bulk", "final_bulk"})
    /\ Len(Flatten(bulkCalls)) <= Len(consumed)
    /\ Flatten(bulkCalls) = SubSeq(consumed, 1, Len(Flatten(bulkCalls)))

\* a second batch is in flight after the first was answered, while a worker
\* is normalizing a further file
C27_Witness ==
    /\ ixpc = "bulk"
    /\ Len(bulkCalls) = 2
    /\ InFlightCalls = {2}
    /\ \E f \in DOMAIN fileState : fileState[f] = "running"

\* the number of places a document has in the batches sent
TimesSent(f) ==
    Cardinality({<<i, j>> \in (1..Len(bulkCalls)) \X (1..(MaxFiles + 1)) :
                   j <= Len(bulkCalls[i].docs) /\ bulkCalls[i].docs[j] = f})

\* C28: a document is never in two batches; it is in a batch only after its
\* file was normalized and taken by the loop; and when index_xml_files has
\* ended every normalized document is in exactly one batch.
C28_DocumentSentExactlyOnce ==
    \A f \in 1..Len(xmlFiles) :
        /\ TimesSent(f) <= 1
        /\ TimesSent(f) = 1 => (xmlFiles[f] /\ f \notin futures)
        /\ (ixpc = "done" /\ xmlFiles[f]) => TimesSent(f) = 1

\* three documents handled in the order 3, 1, 2 with bulk size two: the
\* batches <<3, 1>> and <<2>> were sent
C28_Witness ==
    /\ ixpc = "done"
    /\ bulkSize = 2
    /\ consumed = <<3, 1, 2>>
    /\ Len(bulkCalls) = 2
    /\ bulkCalls[1].docs = <<3, 1>>
    /\ bulkCalls[2].docs = <<2>>

\* the requests of create_index_if_not_exists that process c has made
EnsureReqs(c) == SelectSeq(reqs[c], LAMBDA e : e.kind # "bulk")

\* create_index_if_not_exists of process c has returned
Returned(c) == epc[c] \in {"ingest", "done"}

Sent(c, kind, results) ==
    \E i \in 1..Len(reqs[c]) : reqs[c][i].kind = kind /\ reqs[c][i].result \in results

\* C21: when create_index_if_not_exists returns after it has closed the
\* index, its last request was a reopen that succeeded, a failed reopen
\* having been tried again, also after a failed update; and once every
\* process has returned the index is open.
C21_IndexOpenAfterClose ==
    /\ \A c \in Callers : (Returned(c) /\ Sent(c, "close", {"ok"})) =>
         LET r == EnsureReqs(c) IN r[Len(r)].kind = "open" /\ r[Len(r)].result = "ok"
    /\ ((\A c \in Callers : Returned(c)) /\ (\E c \in Callers : Sent(c, "close", {"ok"})))
         => index.open

\* C22: no process is ever left by an exception of
\* create_index_if_not_exists: after a request of it that failed, by its
\* status or by an exception, the process goes on to the reopen or to the
\* ingestion, and the ingestion ends.
C22_EnsureNeverRaises ==
    \A c \in Callers :
        /\ epc[c] # "raised"
        /\ \A i \in 1..Len(reqs[c]) :
             (reqs[c][i].kind # "bulk" /\ reqs[c][i].result \in Faults /\ i = Len(reqs[c]))
                => epc[c] \in {"open", "ingest"}
        /\ epc[c] = "done" => reqs[c][Len(reqs[c])].kind = "bulk"

\* the first request of a process raised, and the process sent its documents
\* afterwards
C22_Witness ==
    \E c \in Callers :
        /\ epc[c] = "done"
        /\ reqs[c][1].kind = "head" /\ reqs[c][1].result = "raise"
        /\ reqs[c][2].kind = "bulk" /\ reqs[c][2].ret.sent

\* no request of create_index_if_not_exists has failed by a status or an
\* exception
NoEnsureFault == \A c \in Callers : \A i \in 1..Len(reqs[c]) :
                    reqs[c][i].kind # "bulk" => reqs[c][i].result \notin Faults

C24_BulkFailuresBecomeResult ==
    \A c \in Callers :
        /\ epc[c] # "raised"
        /\ \A i \in 1..Len(reqs[c]) :
             LET e == reqs[c][i] IN
             e.kind = "bulk" =>
                /\ ~e.ret.raised
                /\ e.n = 0 => (~e.ret.sent /\ ~e.ret.errors /\ e.ret.items = 0)
                /\ (e.n > 0 /\ e.result \in Faults \cup {"closed"}) =>
                      (e.ret.sent /\ e.ret.errors /\ e.ret.items = 0)

\* one process called bulk_index without documents, the other with documents
\* and the request raised
C24_Witness ==
    \E c, d \in Callers :
        /\ epc[c] = "done" /\ epc[d] = "done"
        /\ reqs[c][Len(reqs[c])].n = 0
        /\ reqs[d][Len(reqs[d])].n > 0 /\ reqs[d][Len(reqs[d])].result = "raise"

\* C25: a process sends close only after it has found the index present and
\* read a limit that is unset or below field_limit; it sends the update only
\* right after a close that succeeded and the reopen only right after the
\* update; none of the three is sent twice.
C25_CloseUpdateReopenOrder ==
    \A c \in Callers : \A i \in 1..Len(reqs[c]) :
        LET e == reqs[c][i]
            before == reqs[c][i - 1]
        IN /\ e.kind = "close" =>
                /\ i = 3
                /\ reqs[c][1].kind = "head" /\ reqs[c][1].result = "ok"
                /\ before.kind = "settings" /\ before.result = "ok"
                /\ curLimit[c] = 0 \/ curLimit[c] < FieldLimit
           /\ e.kind = "update" => (i = 4 /\ before.kind = "close" /\ before.result = "ok")
           /\ e.kind = "open" => (i = 5 /\ before.kind = "update")

\* a process has found the limit 1000, closed, updated and reopened
C25_Witness ==
    \E c \in Callers :
        /\ curLimit[c] = 1000
        /\ Len(reqs[c]) >= 5
        /\ reqs[c][3].kind = "close" /\ reqs[c][4].kind = "update" /\ reqs[c][5].kind = "open"
        /\ \A i \in 1..5 : reqs[c][i].result = "ok"

\* C30: no process sends a bulk request while the index is closed by the
\* close, update, reopen sequence of another process.
C30_NoBulkWhileClosedByOther ==
    [][\A c \in Callers :
         (epc[c] = "ingest" /\ epc'[c] # "ingest" /\ reqs'[c][Len(reqs'[c])].ret.sent)
            => ~(index.exists /\ ~index.open /\ index.closedBy # c)]_vars

====
